---- MODULE Spec2Model ----
(***************************************************************************)
(* LuxTime API: the seed, catalog, blog and checkout handlers of main.py   *)
(* over the three collections "watch", "blogpost" and "order", with the    *)
(* schemas of schemas.py.  The document-store adapter (database.py) is not *)
(* part of the sources at hand; create_document and get_documents are      *)
(* modelled from its description.  Prices are integers (whole dollars).    *)
(***************************************************************************)
EXTENDS Integers, Sequences, FiniteSets, TLC

\* ------------------------------------------------------------------ bounds
\* Number of request workers that can run a seed request at the same time.
NumWorkers == 2
\* Total number of requests the service handles in one behaviour.
MaxRequests == 2
\* Longest item list of a checkout payload.
MaxItems == 2

Workers == 1..NumWorkers

VARIABLES
    configured,     \* db is not None
    store,          \* collection name -> sequence of stored documents
    seed,           \* per worker: position and locals of seed_demo_content
    seedCompleted,  \* history: some seed request has returned 200
    resp,           \* the last response sent
    nreq            \* number of requests started

vars == <<configured, store, seed, seedCompleted, resp, nreq>>

Collections == {"watch", "blogpost", "order"}

\* ------------------------------------------------------------- demo content
demo_watches ==
    << [name |-> "Cosmograph Daytona", brand |-> "Rolex", price |-> 14999,
        description |-> "Iconic chronograph crafted in Oystersteel with Cerachrom bezel.",
        image |-> "https://images.unsplash.com/photo-1548171916-c0dea5c53030?q=80&w=1600&auto=format&fit=crop",
        slug |-> "cosmograph-daytona", in_stock |-> TRUE],
       [name |-> "Submariner Date", brand |-> "Rolex", price |-> 12999,
        description |-> "The archetype of the diver's watch with Oyster bracelet.",
        image |-> "https://images.unsplash.com/photo-1524805444758-089113d48a6d?q=80&w=1600&auto=format&fit=crop",
        slug |-> "submariner-date", in_stock |-> TRUE],
       [name |-> "GMT-Master II", brand |-> "Rolex", price |-> 13999,
        description |-> "Designed to show the time in two different time zones simultaneously.",
        image |-> "https://images.unsplash.com/photo-1594535182308-8ffb6d6b8a34?q=80&w=1600&auto=format&fit=crop",
        slug |-> "gmt-master-ii", in_stock |-> TRUE] >>

demo_posts ==
    << [title |-> "The Art of Precision",
        excerpt |-> "Inside the craftsmanship that defines a legend.",
        content |-> "Precision is not an act, but a habit. Our timepieces embody decades of innovation and mastery.",
        cover_image |-> "https://images.unsplash.com/photo-1490367532201-b9bc1dc483f6?q=80&w=1600&auto=format&fit=crop",
        author |-> "Editorial Team", slug |-> "the-art-of-precision"],
       [title |-> "Diving into Excellence",
        excerpt |-> "Why divers trust our iconic Submariner.",
        content |-> "From the depths of the ocean to the boardroom, a symbol of performance and style.",
        cover_image |-> "https://images.unsplash.com/photo-1514890547357-a9ee0b733005?q=80&w=1600&auto=format&fit=crop",
        author |-> "Editorial Team", slug |-> "diving-into-excellence"] >>

\* ------------------------------------------------------ document store adapter
\* d.pop("_id", None): the document without its store identifier.
pop_id(d) == [f \in DOMAIN d \ {"_id"} |-> d[f]]

\* The document as stored: the record's fields plus the identifier the store
\* assigns on insert.
with_id(data, id) ==
    [f \in DOMAIN data \cup {"_id"} |-> IF f = "_id" THEN id ELSE data[f]]

\* The identifier the store assigns to the next insert into a collection:
\* opaque, and different from every identifier assigned before (documents are
\* never deleted, so the position in the collection is fresh).
new_id(st, collection) == <<collection, Len(st[collection]) + 1>>

\* create_document(collection, record): the store after the insert.
create_document(st, collection, data) ==
    [st EXCEPT ![collection] = Append(@, with_id(data, new_id(st, collection)))]

\* A document matches a filter when every field of the filter is a field of
\* the document with an equal value.
matches(d, filter) ==
    \A f \in DOMAIN filter : f \in DOMAIN d /\ d[f] = filter[f]

RECURSIVE select(_, _)
select(docs, filter) ==
    IF docs = << >> THEN << >>
    ELSE IF matches(Head(docs), filter)
         THEN <<Head(docs)>> \o select(Tail(docs), filter)
         ELSE select(Tail(docs), filter)

\* get_documents(collection, filter, limit): the matching documents in store
\* order, truncated to limit when limit > 0 (0 stands for no limit).
get_documents(st, collection, filter, limit) ==
    LET all == select(st[collection], filter)
    IN  IF limit > 0 /\ Len(all) > limit THEN SubSeq(all, 1, limit) ELSE all

\* ------------------------------------------------------------------ schemas
\* Watch(**d): required fields present and price >= 0.
WatchValid(d) ==
    /\ {"name", "price", "description", "image", "slug"} \subseteq DOMAIN d
    /\ d.price >= 0

\* Watch(**d): the declared fields, defaults filled in, other fields dropped.
Watch(d) ==
    [name |-> d.name,
     brand |-> IF "brand" \in DOMAIN d THEN d.brand ELSE "Rolex",
     price |-> d.price,
     description |-> d.description,
     image |-> d.image,
     slug |-> d.slug,
     in_stock |-> IF "in_stock" \in DOMAIN d THEN d.in_stock ELSE TRUE]

BlogPostValid(d) ==
    {"title", "excerpt", "content", "cover_image", "author", "slug"} \subseteq DOMAIN d

BlogPost(d) ==
    [title |-> d.title, excerpt |-> d.excerpt, content |-> d.content,
     cover_image |-> d.cover_image, author |-> d.author, slug |-> d.slug]

OrderItemValidLoose(i) == i.quantity >= 0 /\ i.quantity <= 11

\* OrderItem: quantity within [1, 10]; price carries no constraint.
OrderItemValid(i) == i.quantity >= 1 /\ i.quantity <= 10

\* Order(**kw): the declared fields with their defaults.
Order(kw) ==
    [customer_name |-> kw.customer_name,
     customer_email |-> kw.customer_email,
     customer_phone |-> IF "customer_phone" \in DOMAIN kw THEN kw.customer_phone ELSE "None",
     items |-> kw.items,
     subtotal |-> kw.subtotal,
     status |-> IF "status" \in DOMAIN kw THEN kw.status ELSE "pending"]

\* Order: subtotal >= 0.
OrderValid(kw) == kw.subtotal >= 0

\* CheckoutRequest: every item is a valid OrderItem.
CheckoutRequestValid(body) ==
    \A n \in 1..Len(body.items) : OrderItemValid(body.items[n])

\* CheckoutRequest(**body): the three declared fields; anything else the client
\* sent is dropped.
CheckoutRequest(body) ==
    [customer_name |-> body.customer_name,
     customer_email |-> body.customer_email,
     items |-> body.items]

\* ------------------------------------------------------------------ inputs
Item(price, quantity) ==
    [slug |-> "submariner-date", name |-> "Submariner Date",
     price |-> price, quantity |-> quantity]

\* Quantities on both sides of each end of [1, 10], and one negative price.
Items == {Item(3, 0), Item(-2, 1), Item(3, 10), Item(3, 11)}

ItemLists == UNION {[1..n -> Items] : n \in 0..MaxItems}

\* The JSON bodies a client posts to /checkout: the three declared fields and,
\* for a client that tries to set the total itself, a "subtotal" field.
Bodies ==
    {[customer_name |-> "Ada", customer_email |-> "ada@example.com", items |-> l] :
        l \in ItemLists}
    \cup
    {[customer_name |-> "Ada", customer_email |-> "ada@example.com", items |-> l,
      subtotal |-> 1] : l \in ItemLists}

\* The slugs a client asks for: the seeded ones, one of them in another case,
\* and one that is never stored.
Slugs ==
    {"cosmograph-daytona", "submariner-date", "gmt-master-ii",
     "the-art-of-precision", "diving-into-excellence",
     "Submariner-Date", "unknown-slug"}

\* ---------------------------------------------------------------- responses
\* A response: the handler that answered, the request it answered, the HTTP
\* status and the JSON body (a list body is carried in the field "records").
Response(op, arg, code, body) == [op |-> op, arg |-> arg, code |-> code, body |-> body]

NoResponse == Response("none", [path |-> ""], 0, [detail |-> ""])

\* The store adapter fails when the store is not configured.
Unavailable(op, arg) == Response(op, arg, 500, [detail |-> "Internal Server Error"])

\* ------------------------------------------------------------------- catalog
list_watches_first(st) ==
    LET docs == get_documents(st, "watch", << >>, 1)
    IN  IF \A n \in 1..Len(docs) : WatchValid(pop_id(docs[n]))
        THEN Response("list_watches", [path |-> "/watches"], 200,
                      [records |-> [n \in 1..Len(docs) |-> Watch(pop_id(docs[n]))]])
        ELSE Unavailable("list_watches", [path |-> "/watches"])

\* list_watches(): every stored watch, identifier popped, passed through Watch.
list_watches(st) ==
    LET docs == get_documents(st, "watch", << >>, 0)
    IN  IF \A n \in 1..Len(docs) : WatchValid(pop_id(docs[n]))
        THEN Response("list_watches", [path |-> "/watches"], 200,
                      [records |-> [n \in 1..Len(docs) |-> Watch(pop_id(docs[n]))]])
        ELSE Unavailable("list_watches", [path |-> "/watches"])

get_watch_any(st, slug) ==
    LET docs == get_documents(st, "watch", << >>, 1)
    IN  IF docs = << >>
        THEN Response("get_watch", [slug |-> slug], 404, [detail |-> "Watch not found"])
        ELSE IF WatchValid(pop_id(docs[1]))
             THEN Response("get_watch", [slug |-> slug], 200, Watch(pop_id(docs[1])))
             ELSE Unavailable("get_watch", [slug |-> slug])

\* get_watch(slug): at most one watch with that slug, or 404.
get_watch(st, slug) ==
    LET docs == get_documents(st, "watch", [slug |-> slug], 1)
    IN  IF docs = << >>
        THEN Response("get_watch", [slug |-> slug], 404, [detail |-> "Watch not found"])
        ELSE IF WatchValid(pop_id(docs[1]))
             THEN Response("get_watch", [slug |-> slug], 200, Watch(pop_id(docs[1])))
             ELSE Unavailable("get_watch", [slug |-> slug])

\* list_posts(): every stored post, identifier popped, passed through BlogPost.
list_posts(st) ==
    LET docs == get_documents(st, "blogpost", << >>, 0)
    IN  IF \A n \in 1..Len(docs) : BlogPostValid(pop_id(docs[n]))
        THEN Response("list_posts", [path |-> "/blog"], 200,
                      [records |-> [n \in 1..Len(docs) |-> BlogPost(pop_id(docs[n]))]])
        ELSE Unavailable("list_posts", [path |-> "/blog"])

\* get_post(slug): at most one post with that slug, or 404.
get_post(st, slug) ==
    LET docs == get_documents(st, "blogpost", [slug |-> slug], 1)
    IN  IF docs = << >>
        THEN Response("get_post", [slug |-> slug], 404, [detail |-> "Post not found"])
        ELSE IF BlogPostValid(pop_id(docs[1]))
             THEN Response("get_post", [slug |-> slug], 200, BlogPost(pop_id(docs[1])))
             ELSE Unavailable("get_post", [slug |-> slug])

\* ------------------------------------------------------------------ checkout
RECURSIVE subtotal_prices(_)
subtotal_prices(items) ==
    IF items = << >> THEN 0
    ELSE Head(items).price + subtotal_prices(Tail(items))

\* sum(i.price * i.quantity for i in payload.items)
RECURSIVE subtotal_of(_)
subtotal_of(items) ==
    IF items = << >> THEN 0
    ELSE Head(items).price * Head(items).quantity + subtotal_of(Tail(items))

checkout_order_default_status(payload) ==
    [customer_name |-> payload.customer_name,
     customer_email |-> payload.customer_email,
     items |-> payload.items,
     subtotal |-> subtotal_of(payload.items)]

\* The keyword arguments checkout passes to Order.
checkout_order(payload) ==
    [customer_name |-> payload.customer_name,
     customer_email |-> payload.customer_email,
     items |-> payload.items,
     subtotal |-> subtotal_of(payload.items),
     status |-> "confirmed"]

checkout_store_replace(st, order) ==
    [st EXCEPT !["order"] = <<with_id(order, new_id(st, "order"))>>]

checkout_store_nothing(st, order) == st

\* order_id = create_document("order", order): the store after the insert.
checkout_store(st, order) == create_document(st, "order", order)

\* The body of a successful checkout response.
checkout_response(order_id, subtotal) ==
    [order_id |-> order_id, status |-> "confirmed", subtotal |-> subtotal]

\* --------------------------------------------------------------------- seed
Idle == [pc |-> "idle", existing_watches |-> 0, existing_posts |-> 0,
         inserted |-> 0, k |-> 0, after |-> FALSE]

seed_branch_always(existing_watches, existing_posts) == "insert_watches"

\* Where seed goes after the two counts: "if existing_watches == 0" and
\* "if existing_posts == 0".
seed_branch(existing_watches, existing_posts) ==
    IF existing_watches = 0 THEN "insert_watches"
    ELSE IF existing_posts = 0 THEN "insert_posts"
    ELSE "return"

\* POST /seed with no store: "if db is None: raise HTTPException(500)".
SeedUnconfigured(w) ==
    /\ seed[w].pc = "idle"
    /\ nreq < MaxRequests
    /\ ~configured
    /\ nreq' = nreq + 1
    /\ resp' = Response("seed", [path |-> "/seed"], 500, [detail |-> "Database not configured"])
    /\ UNCHANGED <<configured, store, seed, seedCompleted>>

\* POST /seed is taken up by worker w.
SeedBegin(w) ==
    /\ seed[w].pc = "idle"
    /\ nreq < MaxRequests
    /\ configured
    /\ nreq' = nreq + 1
    /\ seed' = [seed EXCEPT ![w] = [Idle EXCEPT !.pc = "count_watches",
                                                !.after = seedCompleted]]
    /\ UNCHANGED <<configured, store, seedCompleted, resp>>

\* existing_watches = db["watch"].count_documents({})
SeedCountWatches(w) ==
    /\ seed[w].pc = "count_watches"
    /\ seed' = [seed EXCEPT ![w].existing_watches = Len(store["watch"]),
                            ![w].pc = "count_posts"]
    /\ UNCHANGED <<configured, store, seedCompleted, resp, nreq>>

\* existing_posts = db["blogpost"].count_documents({}); inserted = 0
SeedCountPosts(w) ==
    /\ seed[w].pc = "count_posts"
    /\ seed' = [seed EXCEPT ![w].existing_posts = Len(store["blogpost"]),
                            ![w].inserted = 0,
                            ![w].k = 1,
                            ![w].pc = seed_branch(seed[w].existing_watches,
                                                  Len(store["blogpost"]))]
    /\ UNCHANGED <<configured, store, seedCompleted, resp, nreq>>

\* One turn of "for w in demo_watches: create_document("watch", w); inserted += 1".
SeedInsertWatch(w) ==
    /\ seed[w].pc = "insert_watches"
    /\ store' = create_document(store, "watch", demo_watches[seed[w].k])
    /\ seed' = [seed EXCEPT
                  ![w].inserted = @ + 1,
                  ![w].k = IF seed[w].k < Len(demo_watches) THEN @ + 1 ELSE 1,
                  ![w].pc = IF seed[w].k < Len(demo_watches) THEN "insert_watches"
                            ELSE IF seed[w].existing_posts = 0 THEN "insert_posts"
                            ELSE "return"]
    /\ UNCHANGED <<configured, seedCompleted, resp, nreq>>

\* One turn of "for p in demo_posts: create_document("blogpost", p); inserted += 1".
SeedInsertPost(w) ==
    /\ seed[w].pc = "insert_posts"
    /\ store' = create_document(store, "blogpost", demo_posts[seed[w].k])
    /\ seed' = [seed EXCEPT
                  ![w].inserted = @ + 1,
                  ![w].k = IF seed[w].k < Len(demo_posts) THEN @ + 1 ELSE 1,
                  ![w].pc = IF seed[w].k < Len(demo_posts) THEN "insert_posts"
                            ELSE "return"]
    /\ UNCHANGED <<configured, seedCompleted, resp, nreq>>

\* return {"inserted": inserted}
SeedReturn(w) ==
    /\ seed[w].pc = "return"
    /\ resp' = Response("seed", [after |-> seed[w].after], 200,
                        [inserted |-> seed[w].inserted])
    /\ seed' = [seed EXCEPT ![w] = Idle]
    /\ seedCompleted' = TRUE
    /\ UNCHANGED <<configured, store, nreq>>

\* ------------------------------------------------------------- read requests
\* GET /watches
ListWatches ==
    /\ nreq < MaxRequests
    /\ nreq' = nreq + 1
    /\ resp' = IF configured THEN list_watches(store)
               ELSE Unavailable("list_watches", [path |-> "/watches"])
    /\ UNCHANGED <<configured, store, seed, seedCompleted>>

\* GET /watches/{slug}
GetWatch(slug) ==
    /\ nreq < MaxRequests
    /\ nreq' = nreq + 1
    /\ resp' = IF configured THEN get_watch(store, slug)
               ELSE Unavailable("get_watch", [slug |-> slug])
    /\ UNCHANGED <<configured, store, seed, seedCompleted>>

\* GET /blog
ListPosts ==
    /\ nreq < MaxRequests
    /\ nreq' = nreq + 1
    /\ resp' = IF configured THEN list_posts(store)
               ELSE Unavailable("list_posts", [path |-> "/blog"])
    /\ UNCHANGED <<configured, store, seed, seedCompleted>>

\* GET /blog/{slug}
GetPost(slug) ==
    /\ nreq < MaxRequests
    /\ nreq' = nreq + 1
    /\ resp' = IF configured THEN get_post(store, slug)
               ELSE Unavailable("get_post", [slug |-> slug])
    /\ UNCHANGED <<configured, store, seed, seedCompleted>>

\* ------------------------------------------------------------ POST /checkout
\* The body fails CheckoutRequest: the handler does not run.
CheckoutInvalid(body) ==
    /\ nreq < MaxRequests
    /\ ~CheckoutRequestValid(body)
    /\ nreq' = nreq + 1
    /\ resp' = Response("checkout", body, 422, [detail |-> "Unprocessable Entity"])
    /\ UNCHANGED <<configured, store, seed, seedCompleted>>

\* checkout(payload) with a body that CheckoutRequest accepts.
Checkout(body) ==
    /\ nreq < MaxRequests
    /\ CheckoutRequestValid(body)
    /\ nreq' = nreq + 1
    /\ LET payload == CheckoutRequest(body)
           kw == checkout_order(payload)
       IN  IF OrderValid(kw) /\ configured
           THEN /\ store' = checkout_store(store, Order(kw))
                /\ resp' = Response("checkout", body, 200,
                                    checkout_response(new_id(store, "order"), kw.subtotal))
           ELSE /\ store' = store
                /\ resp' = Unavailable("checkout", body)
    /\ UNCHANGED <<configured, seed, seedCompleted>>

\* ------------------------------------------------------------- specification
Init ==
    /\ configured \in BOOLEAN
    /\ store = [c \in Collections |-> << >>]
    /\ seed = [w \in Workers |-> Idle]
    /\ seedCompleted = FALSE
    /\ resp = NoResponse
    /\ nreq = 0

SeedStep(w) ==
    \/ SeedUnconfigured(w)
    \/ SeedBegin(w)
    \/ SeedCountWatches(w)
    \/ SeedCountPosts(w)
    \/ SeedInsertWatch(w)
    \/ SeedInsertPost(w)
    \/ SeedReturn(w)

Next ==
    \/ \E w \in Workers : SeedStep(w)
    \/ ListWatches
    \/ ListPosts
    \/ \E slug \in Slugs : GetWatch(slug)
    \/ \E slug \in Slugs : GetPost(slug)
    \/ \E body \in Bodies : CheckoutInvalid(body)
    \/ \E body \in Bodies : Checkout(body)

Spec == Init /\ [][Next]_vars

\* ------------------------------------------------------------------- claims
orders == store["order"]

IsPrefix(s, t) == Len(s) <= Len(t) /\ SubSeq(t, 1, Len(s)) = s

\* The sum of price x quantity over the first n items.
RECURSIVE TotalOfFirst(_, _)
TotalOfFirst(items, n) ==
    IF n = 0 THEN 0
    ELSE TotalOfFirst(items, n - 1) + items[n].price * items[n].quantity

HasNegativePrice(items) == \E n \in 1..Len(items) : items[n].price < 0

HasBadQuantity(items) == \E n \in 1..Len(items) : items[n].quantity \notin 1..10

CheckoutAccepted == resp.op = "checkout" /\ resp.code = 200

\* C1: for every accepted checkout the subtotal in the response, and the
\* subtotal of the order stored under the returned identifier, equal the sum of
\* price x quantity over the items of the request, whatever total the client
\* sent; and every stored order's subtotal is that sum over its own items.
C1_SubtotalIsSumOfItems ==
    /\ CheckoutAccepted =>
          /\ resp.body.subtotal = TotalOfFirst(resp.arg.items, Len(resp.arg.items))
          /\ \E n \in 1..Len(orders) :
                /\ orders[n]["_id"] = resp.body.order_id
                /\ orders[n].items = resp.arg.items
                /\ orders[n].subtotal = resp.body.subtotal
    /\ \A n \in 1..Len(orders) :
          orders[n].subtotal = TotalOfFirst(orders[n].items, Len(orders[n].items))

\* An accepted checkout of two items, one of quantity 10, whose client sent a
\* total that differs from the computed one.
C1_Witness ==
    /\ CheckoutAccepted
    /\ Len(resp.arg.items) = 2
    /\ \E n \in 1..2 : resp.arg.items[n].quantity = 10
    /\ "subtotal" \in DOMAIN resp.arg
    /\ resp.arg.subtotal # resp.body.subtotal

\* C2: a seed request that starts after a seed request has completed counts
\* non-empty watch and blogpost collections, writes nothing to the store in any
\* of its steps, and returns inserted = 0.
C2_SecondSeedInsertsNothing ==
    [][\A w \in Workers :
          (seed[w].pc # "idle" /\ seed[w].after /\ seed'[w] # seed[w]) =>
             /\ store' = store
             /\ seed[w].pc = "count_watches" => seed'[w].existing_watches > 0
             /\ seed[w].pc = "count_posts" => seed'[w].existing_posts > 0
             /\ seed'[w].pc \notin {"insert_watches", "insert_posts"}
             /\ seed'[w].pc = "idle" =>
                   (resp'.op = "seed" /\ resp'.code = 200 /\ resp'.body.inserted = 0)]_vars

\* A second seed call has returned, and the collections hold the demo content
\* once.
C2_Witness ==
    /\ resp.op = "seed" /\ resp.code = 200
    /\ resp.arg.after
    /\ resp.body.inserted = 0
    /\ Len(store["watch"]) = Len(demo_watches)
    /\ Len(store["blogpost"]) = Len(demo_posts)

\* C3: every successful checkout adds exactly one record to the order
\* collection, stored under the identifier it returns, and that identifier
\* differs from the identifier of every order stored before.
C3_CheckoutAddsOneFreshOrder ==
    [][(/\ nreq' = nreq + 1
        /\ resp'.op = "checkout" /\ resp'.code = 200
        /\ Checkout(resp'.arg)) =>
          /\ Len(store'["order"]) = Len(store["order"]) + 1
          /\ IsPrefix(store["order"], store'["order"])
          /\ store'["order"][Len(store'["order"])]["_id"] = resp'.body.order_id
          /\ \A n \in 1..Len(store["order"]) :
                store["order"][n]["_id"] # resp'.body.order_id]_vars

\* Two checkouts with the same payload have left two records that differ in
\* their identifier only.
C3_Witness ==
    /\ Len(orders) = 2
    /\ pop_id(orders[1]) = pop_id(orders[2])
    /\ orders[1]["_id"] # orders[2]["_id"]
    /\ CheckoutAccepted
    /\ resp.body.order_id = orders[2]["_id"]

\* C4: every stored order has status "confirmed" and so has every successful
\* checkout response; "pending" and "failed" never appear.
C4_StatusAlwaysConfirmed ==
    /\ \A n \in 1..Len(orders) : orders[n].status = "confirmed"
    /\ CheckoutAccepted => resp.body.status = "confirmed"

\* A checkout has succeeded and its order is stored.
C4_Witness ==
    /\ CheckoutAccepted
    /\ Len(orders) >= 1
    /\ orders[Len(orders)]["_id"] = resp.body.order_id

\* C5: a checkout whose payload has an item with a negative price is never
\* accepted, and no stored order has an item with a negative price.
C5_NegativePriceRejected ==
    /\ (resp.op = "checkout" /\ HasNegativePrice(resp.arg.items)) => resp.code # 200
    /\ \A n \in 1..Len(orders) : ~HasNegativePrice(orders[n].items)

\* C6: a checkout with an item of quantity outside 1..10 fails with a
\* validation error and leaves the store unchanged; a checkout whose items all
\* have a quantity inside 1..10 gets no validation error for them.
C6_QuantityBounds ==
    [][(nreq' = nreq + 1 /\ resp'.op = "checkout") =>
          /\ HasBadQuantity(resp'.arg.items) => (resp'.code = 422 /\ store' = store)
          /\ ~HasBadQuantity(resp'.arg.items) => resp'.code # 422]_vars

\* Quantity 11 has been rejected next to an acceptable item while an order with
\* quantities 1 and 10 is stored.
C6_Witness ==
    /\ resp.op = "checkout" /\ resp.code = 422
    /\ \E n \in 1..Len(resp.arg.items) : resp.arg.items[n].quantity = 11
    /\ \E n \in 1..Len(resp.arg.items) : resp.arg.items[n].quantity \in 1..10
    /\ Len(orders) = 1
    /\ {orders[1].items[n].quantity : n \in 1..Len(orders[1].items)} = {1, 10}

Hits(c, slug) == {n \in 1..Len(store[c]) : store[c][n].slug = slug}

\* C7: on a configured store, get_watch / get_post with a slug that no stored
\* record has answers 404 "Watch not found" / "Post not found"; with a slug
\* that exactly one record has, it answers that record without its identifier;
\* and the lookup leaves the store unchanged.
C7_GetBySlug ==
    [][/\ (/\ configured /\ nreq' = nreq + 1
           /\ resp'.op = "get_watch"
           /\ GetWatch(resp'.arg.slug)) =>
             /\ store' = store
             /\ Hits("watch", resp'.arg.slug) = {} =>
                   (resp'.code = 404 /\ resp'.body.detail = "Watch not found")
             /\ \A n \in Hits("watch", resp'.arg.slug) :
                   Hits("watch", resp'.arg.slug) = {n} =>
                      (resp'.code = 200 /\ resp'.body = pop_id(store["watch"][n]))
       /\ (/\ configured /\ nreq' = nreq + 1
           /\ resp'.op = "get_post"
           /\ GetPost(resp'.arg.slug)) =>
             /\ store' = store
             /\ Hits("blogpost", resp'.arg.slug) = {} =>
                   (resp'.code = 404 /\ resp'.body.detail = "Post not found")
             /\ \A n \in Hits("blogpost", resp'.arg.slug) :
                   Hits("blogpost", resp'.arg.slug) = {n} =>
                      (resp'.code = 200 /\ resp'.body = pop_id(store["blogpost"][n]))]_vars

\* A watch has been found by its slug among several stored watches.
C7_Witness ==
    /\ resp.op = "get_watch" /\ resp.code = 200
    /\ resp.body.slug = resp.arg.slug
    /\ Cardinality(Hits("watch", resp.arg.slug)) = 1
    /\ Len(store["watch"]) > 1

\* C8: on a configured store, list_watches / list_posts answers one record per
\* stored record, in store order, each equal to the stored record without its
\* identifier; an empty collection gives an empty sequence.
C8_ListReturnsStoredRecords ==
    [][/\ (configured /\ nreq' = nreq + 1 /\ resp'.op = "list_watches" /\ ListWatches) =>
             /\ resp'.code = 200
             /\ Len(resp'.body.records) = Len(store["watch"])
             /\ \A n \in 1..Len(store["watch"]) :
                   /\ resp'.body.records[n] = pop_id(store["watch"][n])
                   /\ "_id" \notin DOMAIN resp'.body.records[n]
       /\ (configured /\ nreq' = nreq + 1 /\ resp'.op = "list_posts" /\ ListPosts) =>
             /\ resp'.code = 200
             /\ Len(resp'.body.records) = Len(store["blogpost"])
             /\ \A n \in 1..Len(store["blogpost"]) :
                   /\ resp'.body.records[n] = pop_id(store["blogpost"][n])
                   /\ "_id" \notin DOMAIN resp'.body.records[n]]_vars

\* The seeded watches have been listed.
C8_Witness ==
    /\ resp.op = "list_watches" /\ resp.code = 200
    /\ Len(resp.body.records) = Len(demo_watches)
    /\ \A n \in 1..Len(demo_watches) : resp.body.records[n] = demo_watches[n]

\* C9: the watch and blogpost collections only grow, and only in a step of a
\* seed request; the order collection only grows, by one record, and only in a
\* successful checkout.
C9_Frame ==
    [][/\ \A c \in Collections : IsPrefix(store[c], store'[c])
       /\ \A c \in {"watch", "blogpost"} :
             store'[c] # store[c] =>
                /\ \E w \in Workers : seed[w].pc \in {"insert_watches", "insert_posts"}
                                      /\ seed'[w] # seed[w]
                /\ resp' = resp /\ nreq' = nreq
                /\ store'["order"] = store["order"]
       /\ store'["order"] # store["order"] =>
             /\ Len(store'["order"]) = Len(store["order"]) + 1
             /\ resp'.op = "checkout" /\ resp'.code = 200
             /\ nreq' = nreq + 1
             /\ seed' = seed]_vars

\* Seeded content and an order are stored side by side.
C9_Witness ==
    /\ Len(store["watch"]) >= 1
    /\ Len(orders) >= 1
    /\ resp.op \in {"list_watches", "get_watch", "checkout"}

\* C10: no collection of the catalog holds two records with the same slug.
C10_NoDuplicateSlug ==
    \A c \in {"watch", "blogpost"} :
       \A m, n \in 1..Len(store[c]) :
          m # n => store[c][m].slug # store[c][n].slug

====
